---- MODULE Spec2Model ----
(***************************************************************************)
(* Register transaction engine of MMC5603NJ-I2C/main/i2c_simple_main.c:    *)
(* i2c_master_read_slave_reg and i2c_master_write_slave_reg build a        *)
(* command link (descriptor), hand it to the I2C driver once and delete    *)
(* it.  Every statement of the two functions is one action, named after    *)
(* its source line.  The driver, the bus and the addressed device are the  *)
(* environment: the driver executes the queued operations in order,        *)
(* aborts on a missing acknowledgement or when the wait bound expires.     *)
(***************************************************************************)
EXTENDS Integers, Sequences, FiniteSets, TLC

\* ------------------------------------------------------------ constants

\* #define WRITE_BIT I2C_MASTER_WRITE / READ_BIT I2C_MASTER_READ
WRITE_BIT == 0
READ_BIT == 1
\* #define ACK_CHECK_EN 0x1 / ACK_CHECK_DIS 0x0 / ACK_VAL 0x0 / NACK_VAL 0x1
ACK_CHECK_EN == 1
ACK_CHECK_DIS == 0
ACK_VAL == 0
NACK_VAL == 1
\* device defines
MMC5603NJ_I2C_ADDR == 48
WHO_AM_I_REG == 57
DEVICE_ID == 16
MMC5603NJ_CTRL_REG0 == 26
\* the wait handed to i2c_master_cmd_begin: 1000 / portTICK_PERIOD_MS ticks
TimeoutMs == 1000
\* milliseconds per scheduler tick: set by the build configuration, not by
\* the program; a parameter of the model
portTICK_PERIOD_MS == 100
TimeoutTicks == TimeoutMs \div portTICK_PERIOD_MS

\* largest byte count a caller passes
MaxSize == 2
\* the execution contexts that may call the engine
Tasks == {1, 2}
NoTask == 0

\* ------------------------------------------------------------ C arithmetic

\* x << n on an int (the uint8_t operand is promoted; no overflow at 8 bits)
RECURSIVE Shl(_, _)
Shl(x, n) == IF n = 0 THEN x ELSE Shl(2 * x, n - 1)

\* a | b on non-negative ints
RECURSIVE BitOr(_, _)
BitOr(a, b) ==
  IF a = 0 THEN b
  ELSE IF b = 0 THEN a
  ELSE (IF a % 2 = 1 \/ b % 2 = 1 THEN 1 ELSE 0) + 2 * BitOr(a \div 2, b \div 2)

\* conversion of an int argument to the uint8_t parameter of the driver call
U8(x) == x % 256

\* x >> n on a non-negative int
RECURSIVE Shr(_, _)
Shr(x, n) == IF n = 0 THEN x ELSE Shr(x \div 2, n - 1)

\* conversion of an int to uint16_t
U16(x) == x % 65536

\* mutant: the result is not converted back to 16 bits
byte_swap_Wide(data) == BitOr(Shr(data, 8), Shl(data, 8))

\* uint16_t byte_swap(uint16_t data) { return ((data >> 8) | (data << 8)); }
\* (data is promoted to int: the shifts and the or are done on 32 bits, the
\* return converts to uint16_t)
byte_swap(data) == U16(BitOr(Shr(data, 8), Shl(data, 8)))

\* ------------------------------------------------------------ descriptor
\* A command link is the sequence of queued operations:
\*   <<"start">>, <<"write", byte, ack_en>>, <<"read", pos, ack>>, <<"stop">>
\* where pos is the offset from the caller's buffer pointer.

i2c_master_start(ops) == Append(ops, <<"start">>)

i2c_master_write_byte(ops, data, ack_en) == Append(ops, <<"write", U8(data), ack_en>>)

i2c_master_write(ops, data, len, ack_en) ==
  ops \o [i \in 1..len |-> <<"write", data[i], ack_en>>]

i2c_master_read(ops, ptr, len, ack) ==
  ops \o [i \in 1..len |-> <<"read", ptr + i - 1, ack>>]

i2c_master_read_byte(ops, ptr, ack) == Append(ops, <<"read", ptr, ack>>)

i2c_master_stop(ops) == Append(ops, <<"stop">>)

\* ------------------------------------------------------------ state

VARIABLES
  cfg,        \* the callers and the device on the bus: fixed by Init
  pc,         \* pc[t]: the source line task t is at, "idle" or "done"
  args,       \* args[t]: the arguments of t's current call
  cmd,        \* cmd[t]: the local cmd: [live, ops]
  ret,        \* ret[t]: the local ret / the value returned
  created,    \* created[t]: i2c_cmd_link_create calls of the current call
  deleted,    \* deleted[t]: i2c_cmd_link_delete calls of the current call
  submitted,  \* submitted[t]: i2c_master_cmd_begin calls of the current call
  heap,       \* number of live command links
  port,       \* the driver's port: [owner, idx, elapsed, status]
  bus,        \* the wire: events <<t, kind, ...>> of each task's latest call
  busOpen,    \* a start was sent and no stop since
  rdlog,      \* rdlog[t]: the stores through data_rd: <<pos, ack, value>>
  slave,      \* the device: [sel, phase, ptr, mem]
  app,        \* the caller layer (app_main / mmaMMC5_init): [fn, pc, val, out]
  util        \* an evaluation of byte_swap: [pc, data, once, twice]

vars == <<cfg, pc, args, cmd, ret, created, deleted, submitted, heap, port,
          bus, busOpen, rdlog, slave, app, util>>

callVars == <<args, created, deleted, submitted, rdlog>>
busVars == <<port, bus, busOpen, slave>>

\* null: the buffer argument (data_rd / data_wr) is a null pointer
NoArgs == [fn |-> "none", i2c_addr |-> 0, i2c_reg |-> 0, data_wr |-> <<>>,
           size |-> 0, null |-> FALSE]
NoCmd == [live |-> FALSE, ops |-> <<>>]
FreePort == [owner |-> NoTask, idx |-> 0, elapsed |-> 0, status |-> "free"]

\* the device after power-up: not addressed, the identification register
\* holds the device's identity
SlaveReset(id) == [sel |-> "none", phase |-> "idle", ptr |-> 0,
                   mem |-> (WHO_AM_I_REG :> id)]

\* the caller layer has not run; byte_swap is not being evaluated
NoApp == [fn |-> "none", pc |-> "idle", val |-> 0, out |-> "none"]
NoUtil == [pc |-> "idle", data |-> 0, once |-> 0, twice |-> 0]

Payloads(bytes, n) == [1..n -> bytes]

EngineInit(c) ==
  /\ cfg = c
  /\ pc = [t \in Tasks |-> "idle"]
  /\ args = [t \in Tasks |-> NoArgs]
  /\ cmd = [t \in Tasks |-> NoCmd]
  /\ ret = [t \in Tasks |-> "none"]
  /\ created = [t \in Tasks |-> 0]
  /\ deleted = [t \in Tasks |-> 0]
  /\ submitted = [t \in Tasks |-> 0]
  /\ heap = 0
  /\ port = FreePort
  /\ bus = <<>>
  /\ busOpen = FALSE
  /\ rdlog = [t \in Tasks |-> <<>>]
  /\ slave = SlaveReset(c.id)

InitWith(c) ==
  /\ EngineInit(c)
  /\ app = NoApp
  /\ util = NoUtil

\* ------------------------------------------------------------ the caller

\* the events of the wire that belong to task t's latest call
RECURSIVE Without(_, _)
Without(log, t) ==
  IF log = <<>> THEN <<>>
  ELSE IF Head(log)[1] = t THEN Without(Tail(log), t)
       ELSE <<Head(log)>> \o Without(Tail(log), t)

\* mutant: the command link is kept between calls and a link built by the
\* previous call is submitted again instead of building one
Enter_CachedLink(t, a, first) ==
  /\ pc[t] \in {"idle", "done"}
  /\ args' = [args EXCEPT ![t] = a]
  /\ pc' = [pc EXCEPT ![t] = IF cmd[t].ops = <<>> THEN first
                              ELSE IF a.fn = "read" THEN "r89" ELSE "w115"]
  /\ cmd' = [cmd EXCEPT ![t] = IF cmd[t].ops = <<>> THEN NoCmd
                                ELSE [live |-> TRUE, ops |-> cmd[t].ops]]
  /\ ret' = [ret EXCEPT ![t] = "none"]
  /\ created' = [created EXCEPT ![t] = 0]
  /\ deleted' = [deleted EXCEPT ![t] = 0]
  /\ submitted' = [submitted EXCEPT ![t] = 0]
  /\ rdlog' = [rdlog EXCEPT ![t] = <<>>]
  /\ bus' = Without(bus, t)
  /\ heap' = IF cmd[t].ops = <<>> THEN heap ELSE heap + 1
  /\ UNCHANGED <<cfg, app, util, port, busOpen, slave>>

\* a caller invokes i2c_master_read_slave_reg / i2c_master_write_slave_reg:
\* the locals of the new call are fresh
Enter(t, a, first) ==
  /\ pc[t] \in {"idle", "done"}
  /\ args' = [args EXCEPT ![t] = a]
  /\ pc' = [pc EXCEPT ![t] = first]
  /\ cmd' = [cmd EXCEPT ![t] = NoCmd]
  /\ ret' = [ret EXCEPT ![t] = "none"]
  /\ created' = [created EXCEPT ![t] = 0]
  /\ deleted' = [deleted EXCEPT ![t] = 0]
  /\ submitted' = [submitted EXCEPT ![t] = 0]
  /\ rdlog' = [rdlog EXCEPT ![t] = <<>>]
  /\ bus' = Without(bus, t)
  /\ UNCHANGED <<cfg, app, util, heap, port, busOpen, slave>>

Call_Read(t) ==
  \E a \in cfg.addrs, r \in cfg.regs, n \in cfg.sizes, z \in cfg.nulls :
    Enter(t, [fn |-> "read", i2c_addr |-> a, i2c_reg |-> r,
              data_wr |-> <<>>, size |-> n, null |-> z], "r69")

Call_Write(t) ==
  \E a \in cfg.addrs, r \in cfg.wregs, n \in cfg.sizes, z \in cfg.nulls :
    \E d \in Payloads(cfg.bytes, n) :
      Enter(t, [fn |-> "write", i2c_addr |-> a, i2c_reg |-> r,
                data_wr |-> d, size |-> n, null |-> z], "w106")

\* the first call of a caller
First_Read(t) == pc[t] = "idle" /\ Call_Read(t)

First_Write(t) == pc[t] = "idle" /\ Call_Write(t)

\* ------------------------------------------------------------ statements

Goto(t, from, to) ==
  /\ pc[t] = from
  /\ pc' = [pc EXCEPT ![t] = to]

\* a statement that queues one operation on the local cmd
Queue(t, from, to, ops) ==
  /\ Goto(t, from, to)
  /\ cmd[t].live
  /\ cmd' = [cmd EXCEPT ![t].ops = ops]
  /\ UNCHANGED <<cfg, app, util, callVars, ret, heap, busVars>>

\* cmd = i2c_cmd_link_create()
LinkCreate(t, from, to) ==
  /\ Goto(t, from, to)
  /\ cmd' = [cmd EXCEPT ![t] = [live |-> TRUE, ops |-> <<>>]]
  /\ created' = [created EXCEPT ![t] = @ + 1]
  /\ heap' = heap + 1
  /\ UNCHANGED <<cfg, app, util, args, ret, deleted, submitted, rdlog, busVars>>

\* i2c_cmd_link_delete(cmd)
LinkDelete(t, from, to) ==
  /\ Goto(t, from, to)
  /\ cmd' = [cmd EXCEPT ![t].live = FALSE]
  /\ deleted' = [deleted EXCEPT ![t] = @ + 1]
  /\ heap' = IF cmd[t].live THEN heap - 1 ELSE heap
  /\ UNCHANGED <<cfg, app, util, args, ret, created, submitted, rdlog, busVars>>

\* i2c_master_cmd_begin(i2c_num, cmd, 1000 / portTICK_PERIOD_MS): the call
\* takes the port when it is free and blocks until the driver has finished
CmdBeginCall(t, from, blocked) ==
  /\ Goto(t, from, blocked)
  /\ cmd[t].live
  /\ port.status = "free"
  /\ port' = [owner |-> t, idx |-> 1, elapsed |-> 0,
              status |-> IF cmd[t].ops = <<>> THEN "ok" ELSE "busy"]
  /\ submitted' = [submitted EXCEPT ![t] = @ + 1]
  /\ UNCHANGED <<cfg, app, util, args, cmd, ret, created, deleted, heap, bus, busOpen,
                 rdlog, slave>>

\* the port is held by another caller for the whole wait: the call gives up
CmdBeginBusy(t, from, to) ==
  /\ Goto(t, from, to)
  /\ port.status # "free"
  /\ port.owner # t
  /\ submitted' = [submitted EXCEPT ![t] = @ + 1]
  /\ ret' = [ret EXCEPT ![t] = "ESP_ERR_TIMEOUT"]
  /\ UNCHANGED <<cfg, app, util, args, cmd, created, deleted, heap, rdlog, busVars>>

StatusCode(st) ==
  CASE st = "ok" -> "ESP_OK"
    [] st = "ack_error" -> "ESP_FAIL"
    [] st = "timeout" -> "ESP_ERR_TIMEOUT"

\* esp_err_t ret = <the driver's result>
CmdBeginReturn(t, blocked, to) ==
  /\ Goto(t, blocked, to)
  /\ port.owner = t
  /\ port.status \in {"ok", "ack_error", "timeout"}
  /\ ret' = [ret EXCEPT ![t] = StatusCode(port.status)]
  /\ port' = FreePort
  /\ UNCHANGED <<cfg, app, util, callVars, cmd, heap, bus, busOpen, slave>>

\* return <value>
Return(t, from, value) ==
  /\ Goto(t, from, "done")
  /\ ret' = [ret EXCEPT ![t] = value]
  /\ UNCHANGED <<cfg, app, util, callVars, cmd, heap, busVars>>

\* a test that only moves the program counter
Branch(t, from, cond, then, else) ==
  /\ Goto(t, from, IF cond THEN then ELSE else)
  /\ UNCHANGED <<cfg, app, util, callVars, cmd, ret, heap, busVars>>

\* ------------------------------------------------------------ Read

\* the caller's data_rd, as an offset into the caller's buffer
data_rd == 0

\* the pointer <buffer argument> + off is the null pointer
NullPtr(t, off) == args[t].null /\ off = 0

\* mutant: the count test is missing
Read_L69_NoCheck(t) == Branch(t, "r69", FALSE, "r71", "r73")

\* if (size == 0)
Read_L69(t) == Branch(t, "r69", args[t].size = 0, "r71", "r73")

\* return ESP_OK;
Read_L71(t) == Return(t, "r71", "ESP_OK")

\* i2c_cmd_handle_t cmd = i2c_cmd_link_create();
Read_L73(t) == LinkCreate(t, "r73", "r74")

\* i2c_master_start(cmd);
Read_L74(t) == Queue(t, "r74", "r76", i2c_master_start(cmd[t].ops))

\* mutant: the address is sent without the shift
Read_L76_NoShift(t) ==
  Queue(t, "r76", "r78",
        i2c_master_write_byte(cmd[t].ops, args[t].i2c_addr, ACK_CHECK_EN))

\* i2c_master_write_byte(cmd, (i2c_addr << 1), ACK_CHECK_EN);
Read_L76(t) ==
  Queue(t, "r76", "r78",
        i2c_master_write_byte(cmd[t].ops, Shl(args[t].i2c_addr, 1), ACK_CHECK_EN))

\* mutant: the register selected is the one after i2c_reg
Read_L78_NextReg(t) ==
  Queue(t, "r78", "r80",
        i2c_master_write_byte(cmd[t].ops, args[t].i2c_reg + 1, ACK_CHECK_EN))

\* i2c_master_write_byte(cmd, i2c_reg, ACK_CHECK_EN);
Read_L78(t) ==
  Queue(t, "r78", "r80",
        i2c_master_write_byte(cmd[t].ops, args[t].i2c_reg, ACK_CHECK_EN))

\* mutant: the register selection is submitted as a transaction of its own
\* and the data retrieval is queued on a fresh command
Read_L80_Split(t) ==
  \/ CmdBeginCall(t, "r80", "r80x")
  \/ /\ Goto(t, "r80x", "r82")
     /\ port.owner = t
     /\ port.status \in {"ok", "ack_error", "timeout"}
     /\ port' = FreePort
     /\ cmd' = [cmd EXCEPT ![t].ops = i2c_master_start(<<>>)]
     /\ UNCHANGED <<cfg, app, util, callVars, ret, heap, bus, busOpen, slave>>

\* mutant: a stop is queued before the second start
Read_L80_StopStart(t) ==
  Queue(t, "r80", "r82", i2c_master_start(i2c_master_stop(cmd[t].ops)))

\* i2c_master_start(cmd);   (repeated start)
Read_L80(t) == Queue(t, "r80", "r82", i2c_master_start(cmd[t].ops))

\* i2c_master_write_byte(cmd, (i2c_addr << 1) | READ_BIT, ACK_CHECK_EN);
Read_L82(t) ==
  Queue(t, "r82", "r83",
        i2c_master_write_byte(cmd[t].ops,
                              BitOr(Shl(args[t].i2c_addr, 1), READ_BIT),
                              ACK_CHECK_EN))

\* if (size > 1)
Read_L83(t) == Branch(t, "r83", args[t].size > 1, "r85", "r87")

\* i2c_master_read(cmd, data_rd, size - 1, ACK_VAL);
\* (the driver queues nothing for a null data pointer; its result is dropped)
Read_L85(t) ==
  Queue(t, "r85", "r87",
        IF NullPtr(t, data_rd) THEN cmd[t].ops
        ELSE i2c_master_read(cmd[t].ops, data_rd, args[t].size - 1, ACK_VAL))

\* mutant: the last byte is stored one position too far
Read_L87_OffByOne(t) ==
  Queue(t, "r87", "r88",
        i2c_master_read_byte(cmd[t].ops, data_rd + args[t].size, NACK_VAL))

\* i2c_master_read_byte(cmd, data_rd + size - 1, NACK_VAL);
\* (the driver queues nothing for a null data pointer; its result is dropped)
Read_L87(t) ==
  Queue(t, "r87", "r88",
        IF NullPtr(t, data_rd + args[t].size - 1) THEN cmd[t].ops
        ELSE i2c_master_read_byte(cmd[t].ops, data_rd + args[t].size - 1, NACK_VAL))

\* mutant: no stop is queued
Read_L88_NoStop(t) == Queue(t, "r88", "r89", cmd[t].ops)

\* i2c_master_stop(cmd);
Read_L88(t) == Queue(t, "r88", "r89", i2c_master_stop(cmd[t].ops))

\* esp_err_t ret = i2c_master_cmd_begin(i2c_num, cmd, 1000 / portTICK_PERIOD_MS);
Read_L89_Call(t) == CmdBeginCall(t, "r89", "r89x")

\* mutant: a failed execution is submitted again
Read_L89_Retry(t) ==
  /\ Goto(t, "r89x", IF port.status = "ok" THEN "r90" ELSE "r89")
  /\ port.owner = t
  /\ port.status \in {"ok", "ack_error", "timeout"}
  /\ ret' = [ret EXCEPT ![t] = StatusCode(port.status)]
  /\ port' = FreePort
  /\ UNCHANGED <<cfg, app, util, callVars, cmd, heap, bus, busOpen, slave>>

Read_L89_Busy(t) == CmdBeginBusy(t, "r89", "r90")

Read_L89_Return(t) == CmdBeginReturn(t, "r89x", "r90")

\* mutant: the command link is deleted on success only
Read_L90_LeakOnError(t) ==
  IF ret[t] = "ESP_OK"
  THEN LinkDelete(t, "r90", "r91")
  ELSE /\ Goto(t, "r90", "r91")
       /\ UNCHANGED <<cfg, app, util, callVars, cmd, ret, heap, busVars>>

\* i2c_cmd_link_delete(cmd);
Read_L90(t) == LinkDelete(t, "r90", "r91")

\* mutant: the driver's result is dropped
Read_L91_ReturnsOk(t) == Return(t, "r91", "ESP_OK")

\* return ret;
Read_L91(t) == Return(t, "r91", ret[t])

\* ------------------------------------------------------------ Write

\* mutant: a Write of zero bytes returns at once, as Read does
Write_L106_ZeroCheck(t) ==
  IF args[t].size = 0
  THEN Return(t, "w106", "ESP_OK")
  ELSE LinkCreate(t, "w106", "w107")

\* i2c_cmd_handle_t cmd = i2c_cmd_link_create();
Write_L106(t) == LinkCreate(t, "w106", "w107")

\* i2c_master_start(cmd);
Write_L107(t) == Queue(t, "w107", "w109", i2c_master_start(cmd[t].ops))

\* i2c_master_write_byte(cmd, (i2c_addr << 1) | WRITE_BIT, ACK_CHECK_EN);
Write_L109(t) ==
  Queue(t, "w109", "w111",
        i2c_master_write_byte(cmd[t].ops,
                              BitOr(Shl(args[t].i2c_addr, 1), WRITE_BIT),
                              ACK_CHECK_EN))

\* i2c_master_write_byte(cmd, i2c_reg, ACK_CHECK_EN);
Write_L111(t) ==
  Queue(t, "w111", "w113",
        i2c_master_write_byte(cmd[t].ops, args[t].i2c_reg, ACK_CHECK_EN))

\* mutant: the payload is queued last byte first
Write_L113_Reversed(t) ==
  Queue(t, "w113", "w114",
        i2c_master_write(cmd[t].ops,
                         [i \in 1..args[t].size |-> args[t].data_wr[args[t].size + 1 - i]],
                         args[t].size, ACK_CHECK_EN))

\* i2c_master_write(cmd, data_wr, size, ACK_CHECK_EN);
\* (the driver queues nothing for a null data pointer; its result is dropped)
Write_L113(t) ==
  Queue(t, "w113", "w114",
        IF NullPtr(t, 0) THEN cmd[t].ops
        ELSE i2c_master_write(cmd[t].ops, args[t].data_wr, args[t].size, ACK_CHECK_EN))

\* i2c_master_stop(cmd);
Write_L114(t) == Queue(t, "w114", "w115", i2c_master_stop(cmd[t].ops))

\* esp_err_t ret = i2c_master_cmd_begin(i2c_num, cmd, 1000 / portTICK_PERIOD_MS);
Write_L115_Call(t) == CmdBeginCall(t, "w115", "w115x")

Write_L115_Busy(t) == CmdBeginBusy(t, "w115", "w116")

Write_L115_Return(t) == CmdBeginReturn(t, "w115x", "w116")

\* i2c_cmd_link_delete(cmd);
Write_L116(t) == LinkDelete(t, "w116", "w117")

\* return ret;
Write_L117(t) == Return(t, "w117", ret[t])

\* ------------------------------------------------------------ failed driver calls
\* i2c_cmd_link_create and the queueing calls allocate memory and can fail.
\* The two functions test none of their results: a statement whose driver
\* call failed only moves on to the next line.

\* cmd = i2c_cmd_link_create() returning NULL
LinkCreateFails(t, from, to) ==
  /\ Goto(t, from, to)
  /\ cmd' = [cmd EXCEPT ![t] = NoCmd]
  /\ UNCHANGED <<cfg, app, util, callVars, ret, heap, busVars>>

\* a queueing call that returns an error (no memory left, or the command
\* link is NULL) and queues nothing; the result is dropped
QueueFails(t, from, to) ==
  /\ Goto(t, from, to)
  /\ UNCHANGED <<cfg, app, util, callVars, cmd, ret, heap, busVars>>

\* i2c_master_cmd_begin with a NULL command link: rejected at once
CmdBeginNull(t, from, to) ==
  /\ Goto(t, from, to)
  /\ ~cmd[t].live
  /\ submitted' = [submitted EXCEPT ![t] = @ + 1]
  /\ ret' = [ret EXCEPT ![t] = "ESP_ERR_INVALID_ARG"]
  /\ UNCHANGED <<cfg, app, util, args, cmd, created, deleted, heap, rdlog, busVars>>

\* the queueing statements of i2c_master_read_slave_reg, as <<line, next line>>
ReadQueueLines ==
  { <<"r74", "r76">>, <<"r76", "r78">>, <<"r78", "r80">>, <<"r80", "r82">>,
    <<"r82", "r83">>, <<"r85", "r87">>, <<"r87", "r88">>, <<"r88", "r89">> }

\* the queueing statements of i2c_master_write_slave_reg
WriteQueueLines ==
  { <<"w107", "w109">>, <<"w109", "w111">>, <<"w111", "w113">>,
    <<"w113", "w114">>, <<"w114", "w115">> }

Read_L73_Fails(t) == LinkCreateFails(t, "r73", "r74")

Read_Queue_Fails(t) == \E l \in ReadQueueLines : QueueFails(t, l[1], l[2])

Read_L89_Null(t) == CmdBeginNull(t, "r89", "r90")

Write_L106_Fails(t) == LinkCreateFails(t, "w106", "w107")

Write_Queue_Fails(t) == \E l \in WriteQueueLines : QueueFails(t, l[1], l[2])

Write_L115_Null(t) == CmdBeginNull(t, "w115", "w116")

\* ------------------------------------------------------------ the caller layer
\* app_main and mmaMMC5_init read the identification register through
\* rdMMC5x into a local that has no initial value; both run in task 1.

\* values an uninitialised uint8_t may hold
Indeterminate == {0, DEVICE_ID, 255}

\* rdMMC5x(WHO_AM_I_REG, &(val), 1)
rdMMC5x_WhoAmI ==
  [fn |-> "read", i2c_addr |-> MMC5603NJ_I2C_ADDR, i2c_reg |-> WHO_AM_I_REG,
   data_wr |-> <<>>, size |-> 1, null |-> FALSE]

\* the local val after the call: the byte stored at position 0, if any
ValAfter(t, old) ==
  IF \E i \in 1..Len(rdlog[t]) : rdlog[t][i][1] = 0
  THEN rdlog[t][CHOOSE i \in 1..Len(rdlog[t]) : rdlog[t][i][1] = 0][3]
  ELSE old

AppStep(fn, from, to, val, out) ==
  /\ app.fn = fn
  /\ app.pc = from
  /\ app' = [fn |-> fn, pc |-> to, val |-> val, out |-> out]
  /\ UNCHANGED <<cfg, util, pc, callVars, cmd, ret, heap, busVars>>

\* the call of rdMMC5x by the caller layer
AppCall(fn, at) ==
  /\ app.fn = fn
  /\ app.pc = at
  /\ pc[1] = "idle"
  /\ Enter(1, rdMMC5x_WhoAmI, "r69")

\* rdMMC5x has returned; its result is not looked at
AppReturn(fn, at, to) ==
  /\ pc[1] = "done"
  /\ AppStep(fn, at, to, ValAfter(1, app.val), app.out)

\* uint8_t val[2];   (app_main is entered)
App_Main_L182 ==
  /\ app.fn = "none"
  /\ \E g \in Indeterminate :
       app' = [fn |-> "app_main", pc |-> "a183", val |-> g, out |-> "none"]
  /\ UNCHANGED <<cfg, util, pc, callVars, cmd, ret, heap, busVars>>

\* rdMMC5x(WHO_AM_I_REG, &(val), 1);
App_Main_L183_Call == AppCall("app_main", "a183")

App_Main_L183_Return == AppReturn("app_main", "a183", "a184")

\* printf("%X\n", val[0]);
App_Main_L184 == AppStep("app_main", "a184", "end", app.val, "printf")

\* uint8_t val;   (mmaMMC5_init is entered)
Mma_L139 ==
  /\ app.fn = "none"
  /\ \E g \in Indeterminate :
       app' = [fn |-> "mmaMMC5_init", pc |-> "m141", val |-> g, out |-> "none"]
  /\ UNCHANGED <<cfg, util, pc, callVars, cmd, ret, heap, busVars>>

\* rdMMC5x(WHO_AM_I_REG, &(val), 1);
Mma_L141_Call == AppCall("mmaMMC5_init", "m141")

Mma_L141_Return == AppReturn("mmaMMC5_init", "m141", "m143")

\* if (val == DEVICE_ID)
Mma_L143 ==
  AppStep("mmaMMC5_init", "m143", IF app.val = DEVICE_ID THEN "m145" ELSE "m149",
          app.val, app.out)

\* ESP_LOGI(TAG, "MMC5x ID:0x%X (ok)", val);
Mma_L145 == AppStep("mmaMMC5_init", "m145", "end", app.val, "ESP_LOGI")

\* ESP_LOGE(TAG, "MMC5x ID:0x%X !!!! (NOT correct; should be 0x01)", val);
Mma_L149 == AppStep("mmaMMC5_init", "m149", "end", app.val, "ESP_LOGE")

\* ------------------------------------------------------------ byte_swap
\* byte_swap applied to data, and applied again to the result

Swap_Once ==
  /\ util.pc = "call"
  /\ util' = [util EXCEPT !.pc = "again", !.once = byte_swap(util.data)]
  /\ UNCHANGED <<cfg, app, pc, callVars, cmd, ret, heap, busVars>>

Swap_Twice ==
  /\ util.pc = "again"
  /\ util' = [util EXCEPT !.pc = "end", !.twice = byte_swap(util.once)]
  /\ UNCHANGED <<cfg, app, pc, callVars, cmd, ret, heap, busVars>>

\* ------------------------------------------------------------ driver and bus
\* The driver executes the queued operations of the submitted command link
\* in order.  A written byte whose acknowledgement is checked and missing
\* ends the execution with an acknowledge error; the execution ends with a
\* timeout when the wait bound passes first.

CurOp == cmd[port.owner].ops[port.idx]

Executing ==
  /\ port.status = "busy"
  /\ port.elapsed < TimeoutTicks
  /\ port.idx <= Len(cmd[port.owner].ops)

\* the port after the current operation was executed
Advance ==
  [port EXCEPT !.idx = @ + 1,
               !.status = IF port.idx + 1 > Len(cmd[port.owner].ops)
                          THEN "ok" ELSE "busy"]

\* an aborted transaction: the bus is returned to idle with a stop condition
AbortBus(log) == IF busOpen THEN Append(log, <<port.owner, "stop">>) ELSE log

IdleSlave == [slave EXCEPT !.sel = "none", !.phase = "idle"]

\* the register file of the device: registers never written read as 0
MemAt(r) == IF r \in DOMAIN slave.mem THEN slave.mem[r] ELSE 0

\* does the device acknowledge byte b sent by the master
SlaveAcks(b) ==
  /\ cfg.mode = "ack"
  /\ \/ slave.phase = "addr" /\ b \div 2 = cfg.device
     \/ slave.phase \in {"reg", "data"}

\* the device after byte b sent by the master
SlaveAfterWrite(b) ==
  CASE slave.phase = "addr" /\ SlaveAcks(b) ->
         [slave EXCEPT !.sel = IF b % 2 = 1 THEN "r" ELSE "w",
                       !.phase = IF b % 2 = 1 THEN "rd" ELSE "reg"]
    [] slave.phase = "reg" /\ SlaveAcks(b) ->
         [slave EXCEPT !.ptr = b, !.phase = "data"]
    [] slave.phase = "data" /\ SlaveAcks(b) ->
         [slave EXCEPT !.mem = (slave.ptr :> b) @@ slave.mem,
                       !.ptr = (slave.ptr + 1) % 256]
    [] OTHER -> IdleSlave

Bus_Start ==
  /\ Executing
  /\ CurOp[1] = "start"
  /\ bus' = Append(bus, <<port.owner, "start">>)
  /\ busOpen' = TRUE
  /\ slave' = [slave EXCEPT !.sel = "none", !.phase = "addr"]
  /\ port' = Advance
  /\ UNCHANGED <<cfg, app, util, pc, callVars, cmd, ret, heap>>

Bus_Write ==
  /\ Executing
  /\ CurOp[1] = "write"
  /\ LET b == CurOp[2]
         acked == SlaveAcks(b)
         sent == Append(bus, <<port.owner, "tx", b, acked>>)
     IN IF CurOp[3] # 0 /\ ~acked
        THEN /\ port' = [port EXCEPT !.status = "ack_error"]
             /\ bus' = AbortBus(sent)
             /\ busOpen' = FALSE
             /\ slave' = IdleSlave
        ELSE /\ port' = Advance
             /\ bus' = sent
             /\ slave' = SlaveAfterWrite(b)
             /\ UNCHANGED busOpen
  /\ UNCHANGED <<cfg, app, util, pc, callVars, cmd, ret, heap>>

Bus_Read ==
  /\ Executing
  /\ CurOp[1] = "read"
  /\ LET v == IF slave.phase = "rd" THEN MemAt(slave.ptr) ELSE 255
     IN /\ bus' = Append(bus, <<port.owner, "rx", v, CurOp[3]>>)
        /\ rdlog' = [rdlog EXCEPT ![port.owner] = Append(@, <<CurOp[2], CurOp[3], v>>)]
  /\ slave' = IF slave.phase # "rd" THEN slave
              ELSE IF CurOp[3] = NACK_VAL THEN IdleSlave
              ELSE [slave EXCEPT !.ptr = (slave.ptr + 1) % 256]
  /\ port' = Advance
  /\ UNCHANGED <<cfg, app, util, pc, args, created, deleted, submitted, cmd, ret, heap, busOpen>>

Bus_Stop ==
  /\ Executing
  /\ CurOp[1] = "stop"
  /\ bus' = Append(bus, <<port.owner, "stop">>)
  /\ busOpen' = FALSE
  /\ slave' = IdleSlave
  /\ port' = Advance
  /\ UNCHANGED <<cfg, app, util, pc, callVars, cmd, ret, heap>>

\* a received byte is stored through a pointer derived from a null buffer
\* argument: the store of Bus_Read lands outside any buffer, or the access
\* faults and the program stops
Bus_Fault ==
  /\ Executing
  /\ CurOp[1] = "read"
  /\ args[port.owner].null
  /\ pc' = [pc EXCEPT ![port.owner] = "fault"]
  /\ port' = [port EXCEPT !.status = "fault"]
  /\ UNCHANGED <<cfg, app, util, callVars, cmd, ret, heap, bus, busOpen, slave>>

\* a scheduler tick passes while the caller is blocked in the driver
Bus_Tick ==
  /\ port.status = "busy"
  /\ port.elapsed < TimeoutTicks
  /\ port' = [port EXCEPT !.elapsed = @ + 1]
  /\ UNCHANGED <<cfg, app, util, pc, callVars, cmd, ret, heap, bus, busOpen, slave>>

\* the wait bound has passed: the driver gives up and resets the bus
Bus_Timeout ==
  /\ port.status = "busy"
  /\ port.elapsed >= TimeoutTicks
  /\ port' = [port EXCEPT !.status = "timeout"]
  /\ bus' = AbortBus(bus)
  /\ busOpen' = FALSE
  /\ slave' = IdleSlave
  /\ UNCHANGED <<cfg, app, util, pc, callVars, cmd, ret, heap>>

\* ------------------------------------------------------------ specification

Bytes == {16, 66}

\* one execution context; the device answers at MMC5603NJ_I2C_ADDR, nothing
\* answers at the other address; callers read the identification and the
\* control register and write the control register
OneCaller ==
  [tasks |-> {1}, addrs |-> {MMC5603NJ_I2C_ADDR, 127}, device |-> MMC5603NJ_I2C_ADDR,
   regs |-> {WHO_AM_I_REG, MMC5603NJ_CTRL_REG0}, wregs |-> {MMC5603NJ_CTRL_REG0},
   sizes |-> 0..MaxSize, bytes |-> Bytes, mode |-> "ack", nulls |-> {FALSE},
   id |-> DEVICE_ID]

Init == InitWith(OneCaller)

\* the statements of i2c_master_read_slave_reg
ReadStep(t) ==
  \/ Read_L69(t)
  \/ Read_L71(t)
  \/ Read_L73(t)
  \/ Read_L74(t)
  \/ Read_L76(t)
  \/ Read_L78(t)
  \/ Read_L80(t)
  \/ Read_L82(t)
  \/ Read_L83(t)
  \/ Read_L85(t)
  \/ Read_L87(t)
  \/ Read_L88(t)
  \/ Read_L89_Call(t)
  \/ Read_L89_Return(t)
  \/ Read_L90(t)
  \/ Read_L91(t)

\* the statements of i2c_master_write_slave_reg
WriteStep(t) ==
  \/ Write_L106(t)
  \/ Write_L107(t)
  \/ Write_L109(t)
  \/ Write_L111(t)
  \/ Write_L113(t)
  \/ Write_L114(t)
  \/ Write_L115_Call(t)
  \/ Write_L115_Return(t)
  \/ Write_L116(t)
  \/ Write_L117(t)

\* every statement of the two function bodies, for every caller
Bodies ==
  \/ \E t \in cfg.tasks : Read_L69(t)
  \/ \E t \in cfg.tasks : Read_L71(t)
  \/ \E t \in cfg.tasks : Read_L73(t)
  \/ \E t \in cfg.tasks : Read_L74(t)
  \/ \E t \in cfg.tasks : Read_L76(t)
  \/ \E t \in cfg.tasks : Read_L78(t)
  \/ \E t \in cfg.tasks : Read_L80(t)
  \/ \E t \in cfg.tasks : Read_L82(t)
  \/ \E t \in cfg.tasks : Read_L83(t)
  \/ \E t \in cfg.tasks : Read_L85(t)
  \/ \E t \in cfg.tasks : Read_L87(t)
  \/ \E t \in cfg.tasks : Read_L88(t)
  \/ \E t \in cfg.tasks : Read_L89_Call(t)
  \/ \E t \in cfg.tasks : Read_L89_Return(t)
  \/ \E t \in cfg.tasks : Read_L90(t)
  \/ \E t \in cfg.tasks : Read_L91(t)
  \/ \E t \in cfg.tasks : Write_L106(t)
  \/ \E t \in cfg.tasks : Write_L107(t)
  \/ \E t \in cfg.tasks : Write_L109(t)
  \/ \E t \in cfg.tasks : Write_L111(t)
  \/ \E t \in cfg.tasks : Write_L113(t)
  \/ \E t \in cfg.tasks : Write_L114(t)
  \/ \E t \in cfg.tasks : Write_L115_Call(t)
  \/ \E t \in cfg.tasks : Write_L115_Return(t)
  \/ \E t \in cfg.tasks : Write_L116(t)
  \/ \E t \in cfg.tasks : Write_L117(t)

\* the calls of the two functions and their statements
Statements ==
  \/ \E t \in cfg.tasks : Call_Read(t)
  \/ \E t \in cfg.tasks : Call_Write(t)
  \/ Bodies

\* the driver executing a submitted command link on the bus
Driver ==
  \/ Bus_Start
  \/ Bus_Write
  \/ Bus_Read
  \/ Bus_Stop
  \/ Bus_Tick
  \/ Bus_Timeout

Next ==
  \/ Statements
  \/ Bus_Start
  \/ Bus_Write
  \/ Bus_Read
  \/ Bus_Stop
  \/ Bus_Tick
  \/ Bus_Timeout

Spec == Init /\ [][Next]_vars


\* The device never acknowledges.  The caller's task runs and time passes.
MuteDevice == [OneCaller EXCEPT !.mode = "mute"]

InitMute == InitWith(MuteDevice)

NextMute ==
  \/ Statements
  \/ Bus_Start
  \/ Bus_Write
  \/ Bus_Tick
  \/ Bus_Timeout

FairMute ==
  /\ InitMute
  /\ [][NextMute]_vars
  /\ \A t \in Tasks : WF_vars(ReadStep(t) \/ WriteStep(t))
  /\ WF_vars(Bus_Start \/ Bus_Write \/ Bus_Tick \/ Bus_Timeout)

\* Every 8-bit device address, one per behaviour.
AllAddrs(A) ==
  [OneCaller EXCEPT !.addrs = {A}, !.regs = {MMC5603NJ_CTRL_REG0},
                    !.bytes = {66}]

InitAddr == \E A \in 0..255 : InitWith(AllAddrs(A))

SpecAddr == InitAddr /\ [][Next]_vars

\* Two execution contexts share the port; a behaviour has one device address
\* and one byte count.
TwoCallers(A, n) ==
  [OneCaller EXCEPT !.tasks = {1, 2}, !.addrs = {A}, !.sizes = {n},
                    !.regs = {MMC5603NJ_CTRL_REG0}, !.bytes = {66}]

InitTwo ==
  \E A \in {MMC5603NJ_I2C_ADDR, 127}, n \in 0..MaxSize : InitWith(TwoCallers(A, n))

NextTwo ==
  \/ Next
  \/ \E t \in cfg.tasks : Read_L89_Busy(t)
  \/ \E t \in cfg.tasks : Write_L115_Busy(t)

SpecTwo == InitTwo /\ [][NextTwo]_vars

\* The heap can run out: any allocating driver call of a call can fail.
\* One caller making one call: the device present, one register, one payload
\* byte value.
LowMemory ==
  [OneCaller EXCEPT !.addrs = {MMC5603NJ_I2C_ADDR}, !.regs = {WHO_AM_I_REG},
                    !.bytes = {66}]

InitNoMem == InitWith(LowMemory)

NextNoMem ==
  \/ \E t \in cfg.tasks : First_Read(t)
  \/ \E t \in cfg.tasks : First_Write(t)
  \/ Bodies
  \/ Driver
  \/ \E t \in cfg.tasks : Read_L73_Fails(t)
  \/ \E t \in cfg.tasks : Read_Queue_Fails(t)
  \/ \E t \in cfg.tasks : Read_L89_Null(t)
  \/ \E t \in cfg.tasks : Write_L106_Fails(t)
  \/ \E t \in cfg.tasks : Write_Queue_Fails(t)
  \/ \E t \in cfg.tasks : Write_L115_Null(t)

SpecNoMem == InitNoMem /\ [][NextNoMem]_vars

\* Callers may pass a null buffer pointer.  One caller, the device present.
NullBuffers ==
  [OneCaller EXCEPT !.addrs = {MMC5603NJ_I2C_ADDR}, !.bytes = {66},
                    !.nulls = {FALSE, TRUE}]

InitNull == InitWith(NullBuffers)

NextNull ==
  \/ Next
  \/ Bus_Fault

SpecNull == InitNull /\ [][NextNull]_vars

\* The round trip: caller 1 writes one byte v to register R of the device at
\* address A; once that Write has returned ESP_OK, caller 2 reads one byte
\* from the same register.  Nothing else is called.  A behaviour has one A,
\* one R and one v; the device stores what is written and returns it.
RoundTrip(A, R, v) ==
  [OneCaller EXCEPT !.tasks = {1, 2}, !.addrs = {A}, !.device = A,
                    !.regs = {R}, !.wregs = {R}, !.sizes = {1}, !.bytes = {v}]

RoundTripAddrs == {MMC5603NJ_I2C_ADDR, 127}
RoundTripRegs == {MMC5603NJ_CTRL_REG0, WHO_AM_I_REG}

InitRoundTrip ==
  \E A \in RoundTripAddrs, R \in RoundTripRegs, v \in 0..255 :
    InitWith(RoundTrip(A, R, v))

RoundTrip_Write == First_Write(1)

RoundTrip_Read ==
  /\ pc[1] = "done"
  /\ ret[1] = "ESP_OK"
  /\ First_Read(2)

NextRoundTrip ==
  \/ RoundTrip_Write
  \/ RoundTrip_Read
  \/ \E t \in cfg.tasks : Read_L69(t)
  \/ \E t \in cfg.tasks : Read_L73(t)
  \/ \E t \in cfg.tasks : Read_L74(t)
  \/ \E t \in cfg.tasks : Read_L76(t)
  \/ \E t \in cfg.tasks : Read_L78(t)
  \/ \E t \in cfg.tasks : Read_L80(t)
  \/ \E t \in cfg.tasks : Read_L82(t)
  \/ \E t \in cfg.tasks : Read_L83(t)
  \/ \E t \in cfg.tasks : Read_L87(t)
  \/ \E t \in cfg.tasks : Read_L88(t)
  \/ \E t \in cfg.tasks : Read_L89_Call(t)
  \/ \E t \in cfg.tasks : Read_L89_Return(t)
  \/ \E t \in cfg.tasks : Read_L90(t)
  \/ \E t \in cfg.tasks : Read_L91(t)
  \/ \E t \in cfg.tasks : WriteStep(t)
  \/ Driver

SpecRoundTrip == InitRoundTrip /\ [][NextRoundTrip]_vars

\* The identification: app_main or mmaMMC5_init runs once against a device
\* whose identification register holds id; the device answers or is silent.
Identify(id, mode) ==
  [OneCaller EXCEPT !.addrs = {MMC5603NJ_I2C_ADDR}, !.regs = {WHO_AM_I_REG},
                    !.sizes = {1}, !.id = id, !.mode = mode]

Identities == {DEVICE_ID, 1, 0}

InitIdentify ==
  \E id \in Identities, mode \in {"ack", "mute"} : InitWith(Identify(id, mode))

NextIdentify ==
  \/ App_Main_L182
  \/ App_Main_L183_Call
  \/ App_Main_L183_Return
  \/ App_Main_L184
  \/ Mma_L139
  \/ Mma_L141_Call
  \/ Mma_L141_Return
  \/ Mma_L143
  \/ Mma_L145
  \/ Mma_L149
  \/ \E t \in cfg.tasks : Read_L69(t)
  \/ \E t \in cfg.tasks : Read_L73(t)
  \/ \E t \in cfg.tasks : Read_L74(t)
  \/ \E t \in cfg.tasks : Read_L76(t)
  \/ \E t \in cfg.tasks : Read_L78(t)
  \/ \E t \in cfg.tasks : Read_L80(t)
  \/ \E t \in cfg.tasks : Read_L82(t)
  \/ \E t \in cfg.tasks : Read_L83(t)
  \/ \E t \in cfg.tasks : Read_L87(t)
  \/ \E t \in cfg.tasks : Read_L88(t)
  \/ \E t \in cfg.tasks : Read_L89_Call(t)
  \/ \E t \in cfg.tasks : Read_L89_Return(t)
  \/ \E t \in cfg.tasks : Read_L90(t)
  \/ \E t \in cfg.tasks : Read_L91(t)
  \/ Driver

SpecIdentify == InitIdentify /\ [][NextIdentify]_vars

\* The same call made first and made after a failed call.  Caller 2 makes the
\* first call of the system, to the device.  When it has returned, caller 1
\* makes a call to an address where nothing answers, which fails, and after
\* that failure makes calls to the device.
NobodyAddr == 127

AfterFailure ==
  [OneCaller EXCEPT !.tasks = {1, 2}, !.regs = {MMC5603NJ_CTRL_REG0},
                    !.bytes = {66}]

InitAfter == InitWith(AfterFailure)

\* the first call ever made
Fresh_Call ==
  /\ pc[1] = "idle"
  /\ First_Read(2) \/ First_Write(2)
  /\ args'[2].i2c_addr = cfg.device

\* a call that fails: nothing acknowledges the address
Failing_Call ==
  /\ pc[2] = "done"
  /\ First_Read(1) \/ First_Write(1)
  /\ args'[1].i2c_addr = NobodyAddr

\* a call made after a call of the same caller has failed
Later_Call ==
  /\ pc[1] = "done"
  /\ ret[1] \in {"ESP_FAIL", "ESP_ERR_TIMEOUT"}
  /\ Call_Read(1) \/ Call_Write(1)
  /\ args'[1].i2c_addr = cfg.device

NextAfter ==
  \/ Fresh_Call
  \/ Failing_Call
  \/ Later_Call
  \/ Bodies
  \/ Driver

SpecAfter == InitAfter /\ [][NextAfter]_vars

\* byte_swap on every uint16_t value
InitSwap ==
  /\ EngineInit(OneCaller)
  /\ app = NoApp
  /\ \E x \in 0..65535 : util = [NoUtil EXCEPT !.pc = "call", !.data = x]

NextSwap ==
  \/ Swap_Once
  \/ Swap_Twice

SpecSwap == InitSwap /\ [][NextSwap]_vars

\* ------------------------------------------------------------ observations

\* task t is inside i2c_master_read_slave_reg / i2c_master_write_slave_reg
InCall(t) == pc[t] \notin {"idle", "done"}

\* t's call has built its transaction (every queueing statement was executed)
Built(t) == pc[t] \in {"r89", "r89x", "r90", "r91", "w115", "w115x", "w116", "w117"}
            \/ (pc[t] = "done" /\ created[t] > 0)

\* i2c_master_cmd_begin of t's call has returned
Executed(t) == pc[t] \in {"r90", "r91", "w116", "w117"}
               \/ (pc[t] = "done" /\ submitted[t] > 0)

IsRead(t) == args[t].fn = "read"
IsWrite(t) == args[t].fn = "write"

\* the wire events of t's latest call, in order, without the task tag
RECURSIVE Wire(_, _)
Wire(log, t) ==
  IF log = <<>> THEN <<>>
  ELSE IF Head(log)[1] = t THEN <<Tail(Head(log))>> \o Wire(Tail(log), t)
       ELSE Wire(Tail(log), t)

Count(seq, kind) == Cardinality({i \in 1..Len(seq) : seq[i][1] = kind})

\* ------------------------------------------------------------ claims

\* C1: when a Read with count >= 1 has built its transaction, the queued
\* operations are exactly: start, address byte with write intent (ACK
\* checked), register index (ACK checked), repeated start, address byte with
\* read intent (ACK checked), count-1 reads answered ACK, one read answered
\* NACK, stop; and on the wire no stop lies between two starts of the call.
C1_Expected(A, R, n) ==
  << <<"start">>, <<"write", 2 * A, 1>>, <<"write", R, 1>>, <<"start">>,
     <<"write", 2 * A + 1, 1>> >>
  \o [i \in 1..(n - 1) |-> <<"read", i - 1, ACK_VAL>>]
  \o << <<"read", n - 1, NACK_VAL>>, <<"stop">> >>

C2_OneStop ==
  /\ \A t \in Tasks :
       LET w == Wire(bus, t)
       IN (Executed(t) /\ Count(w, "start") >= 1) =>
            /\ Count(w, "stop") = 1
            /\ w[Len(w)][1] = "stop"
  /\ (\A t \in Tasks : ~InCall(t)) => ~busOpen

\* a Read has timed out after its repeated start was sent
C2_Witness ==
  \E t \in Tasks :
    /\ IsRead(t) /\ pc[t] = "done" /\ ret[t] = "ESP_ERR_TIMEOUT"
    /\ Count(Wire(bus, t), "start") = 2

\* C3: a Read with count = 0 returns ESP_OK at once: it creates no command
\* link, submits nothing, stores nothing and puts nothing on the wire,
\* whatever the device address and register.
C3_ZeroCountRead ==
  \A t \in Tasks :
    (IsRead(t) /\ args[t].size = 0) =>
      /\ pc[t] \in {"r69", "r71", "done"}
      /\ created[t] = 0 /\ submitted[t] = 0 /\ cmd[t] = NoCmd
      /\ Wire(bus, t) = <<>> /\ rdlog[t] = <<>>
      /\ port.owner # t
      /\ pc[t] = "done" => ret[t] = "ESP_OK"

\* a Read with count 0 has returned, addressed to where no device answers
C3_Witness ==
  \E t \in Tasks :
    /\ IsRead(t) /\ args[t].size = 0 /\ pc[t] = "done"
    /\ args[t].i2c_addr # cfg.device

\* C4: a successful Read with count >= 1 stores through the buffer pointer
\* at offsets 0, 1, .., count-1, once each and in that order: the first
\* count-1 by reads answered ACK, the last by the read answered NACK; and no
\* Read, successful or not, stores outside 0..count-1.
C4_BufferPositions ==
  \A t \in Tasks :
    IsRead(t) =>
      /\ \A i \in 1..Len(rdlog[t]) : rdlog[t][i][1] \in 0..(args[t].size - 1)
      /\ (pc[t] = "done" /\ ret[t] = "ESP_OK" /\ args[t].size >= 1) =>
           /\ Len(rdlog[t]) = args[t].size
           /\ \A i \in 1..args[t].size :
                /\ rdlog[t][i][1] = i - 1
                /\ rdlog[t][i][2] = IF i < args[t].size THEN ACK_VAL ELSE NACK_VAL

\* a successful Read of two or more bytes
C4_Witness ==
  \E t \in Tasks :
    /\ IsRead(t) /\ args[t].size >= 2 /\ pc[t] = "done" /\ ret[t] = "ESP_OK"
    /\ Len(rdlog[t]) >= 2

\* C5: when a Write has built its transaction, the queued operations are
\* exactly: start, address byte with write intent, register index, the count
\* bytes of the input buffer in index order (every byte ACK checked), stop:
\* one start, no read; a successful Write puts exactly these on the wire.
C5_Expected(A, R, d, n) ==
  << <<"start">>, <<"write", 2 * A, 1>>, <<"write", R, 1>> >>
  \o [i \in 1..n |-> <<"write", d[i], 1>>]
  \o << <<"stop">> >>

C5_WriteSequence ==
  \A t \in Tasks :
    (IsWrite(t) /\ Built(t)) =>
      /\ cmd[t].ops = C5_Expected(args[t].i2c_addr, args[t].i2c_reg,
                                  args[t].data_wr, args[t].size)
      /\ Count(cmd[t].ops, "start") = 1
      /\ Count(cmd[t].ops, "read") = 0
      /\ (pc[t] = "done" /\ ret[t] = "ESP_OK") =>
           LET w == Wire(bus, t)
           IN /\ Len(w) = args[t].size + 4
              /\ w[1][1] = "start" /\ w[Len(w)][1] = "stop"
              /\ \A i \in 2..(Len(w) - 1) :
                   w[i][1] = "tx" /\ w[i][2] = cmd[t].ops[i][2]

\* a successful Write of two different payload bytes
C5_Witness ==
  \E t \in Tasks :
    /\ IsWrite(t) /\ args[t].size >= 2 /\ pc[t] = "done" /\ ret[t] = "ESP_OK"
    /\ args[t].data_wr[1] # args[t].data_wr[2]

\* C6: for a 7-bit device address A (0..127) the address byte queued and
\* transmitted after the first start of a Read or Write is 2*A (low bit 0)
\* and the one after the repeated start of a Read is 2*A + 1; both are
\* bytes whose upper seven bits are A.
C6_IsAddrByte(b, A, rw) == b \in 0..255 /\ b \div 2 = A /\ b % 2 = rw /\ b = 2 * A + rw

C8_AlwaysTimeout ==
  \A t \in Tasks :
    (pc[t] = "done" /\ submitted[t] > 0) => ret[t] = "ESP_ERR_TIMEOUT"

\* C8, amended: against a device that never acknowledges, every Read with
\* count >= 1 and every Write returns, the wait never exceeds the bound of
\* 1000 ms, and the result is never success: it is ESP_FAIL when the
\* address byte was sent and found unacknowledged, and ESP_ERR_TIMEOUT only
\* when the wait bound passed before that.
C8_NoSuccess ==
  /\ port.elapsed * portTICK_PERIOD_MS <= TimeoutMs
  /\ \A t \in Tasks :
       (Executed(t) /\ (IsWrite(t) \/ args[t].size >= 1)) =>
         /\ ret[t] \in {"ESP_FAIL", "ESP_ERR_TIMEOUT"}
         /\ ret[t] = "ESP_FAIL" <=> Count(Wire(bus, t), "tx") = 1
         /\ ret[t] = "ESP_ERR_TIMEOUT" <=> Count(Wire(bus, t), "tx") = 0

C8_Returns == \A t \in Tasks : InCall(t) ~> (pc[t] = "done")

\* C8, amended: never success, within the bound, and the call returns
C8_BoundedFailure == [](C8_NoSuccess) /\ C8_Returns

\* a Write to the mute device has returned ESP_FAIL
C8_Witness ==
  \E t \in Tasks :
    /\ IsWrite(t) /\ pc[t] = "done" /\ ret[t] = "ESP_FAIL"
    /\ Count(Wire(bus, t), "stop") = 1

\* C9: a call creates at most one command link and deletes it exactly once
\* before it returns, whatever the driver's result; the number of live
\* command links is the number of calls holding one, and zero whenever no
\* call is in progress.
C9_DescriptorRelease ==
  /\ \A t \in Tasks :
       /\ created[t] <= 1
       /\ deleted[t] <= created[t]
       /\ cmd[t].live <=> (created[t] = 1 /\ deleted[t] = 0)
       /\ pc[t] = "done" => deleted[t] = created[t]
       /\ (pc[t] = "done" /\ (IsWrite(t) \/ args[t].size >= 1)) => created[t] = 1
  /\ heap = Cardinality({t \in Tasks : cmd[t].live})
  /\ (\A t \in Tasks : ~InCall(t)) => heap = 0

\* a Read that timed out has returned and its command link is deleted
C9_Witness ==
  \E t \in Tasks :
    /\ IsRead(t) /\ pc[t] = "done" /\ ret[t] = "ESP_ERR_TIMEOUT"
    /\ created[t] = 1 /\ deleted[t] = 1 /\ heap = 0

\* C10: a Read with count >= 1 or a Write submits its command link exactly
\* once, also when the execution fails; once submitted, the queued
\* operations never change and the link is not submitted again: the only
\* later change of the link is its deletion.
C10_SubmittedOnce ==
  \A t \in Tasks :
    /\ submitted[t] <= 1
    /\ (Executed(t) /\ (IsWrite(t) \/ args[t].size >= 1)) => submitted[t] = 1

C10_Frozen ==
  \A t \in Tasks :
    (submitted[t] >= 1 /\ InCall(t)) =>
      /\ cmd'[t].ops = cmd[t].ops
      /\ submitted'[t] = submitted[t]
      /\ cmd'[t] # cmd[t] => (cmd[t].live /\ ~cmd'[t].live)

\* C10: the command link is submitted exactly once and is frozen from then on
C10_SingleSubmission == [](C10_SubmittedOnce) /\ [][C10_Frozen]_vars

\* a Read whose execution failed on a missing acknowledgement has returned
C10_Witness ==
  \E t \in Tasks :
    /\ IsRead(t) /\ pc[t] = "done" /\ ret[t] = "ESP_FAIL" /\ submitted[t] = 1

\* C11: a call that has returned ESP_OK (other than the Read of zero bytes)
\* built the full transaction of its arguments and executed all of it: every
\* queued operation reached the wire, every written byte was acknowledged
\* and a Read received every requested byte.  Hence a failed creation, a
\* failed queueing call or a failed execution gives a result other than
\* ESP_OK.
C11_FullyBuilt(t) ==
  IF IsRead(t)
  THEN cmd[t].ops = C1_Expected(args[t].i2c_addr, args[t].i2c_reg, args[t].size)
  ELSE cmd[t].ops = C5_Expected(args[t].i2c_addr, args[t].i2c_reg,
                                args[t].data_wr, args[t].size)

\* C11: a call that returned ESP_OK built and executed its full transaction
C11_NoSwallowedError ==
  \A t \in Tasks :
    (pc[t] = "done" /\ ret[t] = "ESP_OK" /\ ~(IsRead(t) /\ args[t].size = 0)) =>
      /\ C11_FullyBuilt(t)
      /\ LET w == Wire(bus, t)
         IN /\ Len(w) = Len(cmd[t].ops)
            /\ \A i \in 1..Len(w) : w[i][1] = "tx" => w[i][3]
      /\ IsRead(t) => Len(rdlog[t]) = args[t].size

\* C12: a call with a null buffer and a nonzero count is rejected with an
\* argument error before any bus activity: it submits no command link, puts
\* nothing on the wire (no start), stores nothing through the buffer pointer,
\* does not fault, and returns ESP_ERR_INVALID_ARG.
C12_ArgumentError ==
  \A t \in Tasks :
    (args[t].fn # "none" /\ args[t].null /\ args[t].size >= 1) =>
      /\ submitted[t] = 0
      /\ Wire(bus, t) = <<>>
      /\ rdlog[t] = <<>>
      /\ pc[t] # "fault"
      /\ pc[t] = "done" => ret[t] = "ESP_ERR_INVALID_ARG"

\* C13: round trip.  When the Write of [v] to register R of the device at
\* address A has returned ESP_OK and the following Read of one byte from the
\* same register of the same device, with no write in between, has returned
\* ESP_OK, the byte stored at the start of the Read's buffer is v.
C13_RoundTrip ==
  ( /\ IsWrite(1) /\ args[1].size = 1 /\ pc[1] = "done" /\ ret[1] = "ESP_OK"
    /\ IsRead(2) /\ args[2].size = 1 /\ pc[2] = "done" /\ ret[2] = "ESP_OK"
    /\ args[2].i2c_addr = args[1].i2c_addr
    /\ args[2].i2c_reg = args[1].i2c_reg ) =>
      rdlog[2] = << <<data_rd, NACK_VAL, args[1].data_wr[1]>> >>

\* the spec's instance: Write(0x30, 0x1A, [0x42]) then Read(0x30, 0x1A, 1)
\* has returned [0x42]
C13_Witness ==
  /\ IsWrite(1) /\ pc[1] = "done" /\ ret[1] = "ESP_OK"
  /\ args[1].i2c_addr = 48 /\ args[1].i2c_reg = 26 /\ args[1].data_wr = <<66>>
  /\ IsRead(2) /\ pc[2] = "done" /\ ret[2] = "ESP_OK"
  /\ args[2].i2c_addr = 48 /\ args[2].i2c_reg = 26 /\ args[2].size = 1
  /\ rdlog[2] = << <<0, NACK_VAL, 66>> >>

\* C14: identification.  A Read of WHO_AM_I_REG with count 1 that has
\* returned ESP_OK delivered the device's identity byte; the engine's result
\* is an acknowledge error only when the device does not answer, whatever
\* the identity; and when the caller layer (app_main / mmaMMC5_init) has
\* finished, the Read had delivered a byte, the caller's val is that byte,
\* and an identity other than DEVICE_ID was reported as an error.
C14_Delivered ==
  (IsRead(1) /\ pc[1] = "done" /\ ret[1] = "ESP_OK") =>
    rdlog[1] = << <<data_rd, NACK_VAL, cfg.id>> >>

C14_EngineNeutral ==
  (IsRead(1) /\ pc[1] = "done" /\ ret[1] = "ESP_FAIL") => cfg.mode = "mute"

C14_Verdict ==
  app.pc = "end" =>
    /\ ret[1] = "ESP_OK"
    /\ rdlog[1] # <<>>
    /\ app.val = rdlog[1][1][3]
    /\ (app.val # DEVICE_ID) <=> (app.out = "ESP_LOGE")

\* C14: the Read delivers the identity, the engine is neutral to its value,
\* and the caller layer forms its verdict from the delivered byte
C14_Identification == C14_Delivered /\ C14_EngineNeutral /\ C14_Verdict

\* C15: statelessness.  A call made after a failed or timed-out call, with
\* the arguments of the call that was made first, has queued the same
\* operations as that first call once it has built its transaction, and when
\* both have returned ESP_OK the master issued the same events on the wire
\* (the value of a received byte is the device's, not the master's).
C15_PastBuilding(t) ==
  pc[t] \in {"r89", "r89x", "r90", "r91", "w115", "w115x", "w116", "w117", "done"}

C15_Issued(w) ==
  [i \in 1..Len(w) |-> IF w[i][1] = "rx" THEN <<"rx", w[i][3]>> ELSE w[i]]

\* C15: the same call issues the same operations after a failed call as when
\* made first
C15_Stateless ==
  (args[1].fn # "none" /\ args[1] = args[2] /\ pc[2] = "done" /\ C15_PastBuilding(1)) =>
    /\ cmd[1].ops = cmd[2].ops
    /\ (pc[1] = "done" /\ ret[1] = "ESP_OK" /\ ret[2] = "ESP_OK") =>
         C15_Issued(Wire(bus, 1)) = C15_Issued(Wire(bus, 2))

\* a two-byte Read made after a failed call has succeeded, as the same Read
\* made first had
C15_Witness ==
  /\ IsRead(1) /\ args[1].size = 2 /\ args[1] = args[2]
  /\ pc[1] = "done" /\ ret[1] = "ESP_OK"
  /\ pc[2] = "done" /\ ret[2] = "ESP_OK"
  /\ Len(Wire(bus, 1)) = Len(cmd[1].ops)

\* C16: a Write with count 0 is not short-circuited.  It returns only after
\* it has created one command link and submitted it once; the link holds
\* exactly start, address byte with write intent, register index, stop; the
\* value returned is the result of that execution: ESP_OK only when these
\* four went over the wire acknowledged, ESP_FAIL only when a byte was not
\* acknowledged, otherwise ESP_ERR_TIMEOUT.
C16_Ops(A, R) ==
  << <<"start">>, <<"write", 2 * A, ACK_CHECK_EN>>, <<"write", R, ACK_CHECK_EN>>,
     <<"stop">> >>

C16_OnWire(A, R) ==
  << <<"start">>, <<"tx", 2 * A, TRUE>>, <<"tx", R, TRUE>>, <<"stop">> >>

\* C16: a Write of zero bytes builds and executes start, address, register,
\* stop and returns the result of the execution
C16_ZeroCountWrite ==
  \A t \in Tasks :
    (IsWrite(t) /\ args[t].size = 0) =>
      /\ Built(t) =>
           /\ created[t] = 1
           /\ cmd[t].ops = C16_Ops(args[t].i2c_addr, args[t].i2c_reg)
      /\ pc[t] = "done" =>
           /\ Built(t)
           /\ submitted[t] = 1
           /\ ret[t] \in {"ESP_OK", "ESP_FAIL", "ESP_ERR_TIMEOUT"}
           /\ (ret[t] = "ESP_OK") =>
                (Wire(bus, t) = C16_OnWire(args[t].i2c_addr, args[t].i2c_reg))
           /\ (ret[t] = "ESP_FAIL") =>
                LET w == Wire(bus, t)
                IN \E i \in 1..Len(w) : w[i][1] = "tx" /\ ~w[i][3]

\* a Write of zero bytes has failed with an acknowledge error after its start
\* and address byte went on the bus
C16_Witness ==
  \E t \in Tasks :
    /\ IsWrite(t) /\ args[t].size = 0 /\ pc[t] = "done"
    /\ ret[t] = "ESP_FAIL"
    /\ Len(cmd[t].ops) = 4
    /\ Len(Wire(bus, t)) >= 2

\* C17: for every x in 0..65535, byte_swap(x) = (x mod 256) * 256 + x div 256,
\* the result is within 16 bits, and byte_swap(byte_swap(x)) = x.
C17_ByteSwap ==
  /\ util.pc \in {"again", "end"} =>
       /\ util.once = (util.data % 256) * 256 + util.data \div 256
       /\ util.once \in 0..65535
  /\ util.pc = "end" => util.twice = util.data

\* 0xABCD was swapped to 0xCDAB and back: the high byte was shifted past bit 15
C17_Witness ==
  /\ util.pc = "end"
  /\ util.data = 43981
  /\ util.once = 52651
  /\ util.twice = 43981

====
